---- MODULE Spec2Model ----
(***************************************************************************)
(* TravelEase server (Express + MongoDB + Firebase ID tokens).            *)
(* The model follows src/unnamed/part_001, the version of the server that *)
(* has every route (src/index.js is the same server without POST          *)
(* /bookings and GET /stats/top-vehicles).                                *)
(*                                                                         *)
(* Strings are sequences of one-character strings, so that startsWith,    *)
(* split, Number(), ObjectId parsing and $regex are computed on the       *)
(* characters.  A JavaScript value is a record [t, n, s]: t is the type    *)
(* tag, n the number of a "num", s the characters of a "str".             *)
(***************************************************************************)
EXTENDS Integers, Sequences, FiniteSets, TLC

VARIABLES
  vehicles,   \* the vehicles collection: ObjectId -> document
  bookings,   \* the bookings collection, in insertion order
  users,      \* the users collection, in insertion order
  inflight,   \* requests suspended between their lookup and their write
  now,        \* the clock new Date() reads
  nextId,     \* how many vehicle identifiers the store has generated
  createdBy,  \* history: the verified identity that created each vehicle
  ev          \* the step just taken: the request and the answer it got

vars == <<vehicles, bookings, users, inflight, now, nextId, createdBy, ev>>

stores == <<vehicles, bookings, users>>

(***************************************************************************)
(* Bounds of the model.                                                    *)
(***************************************************************************)
MaxVehicles == 2     \* vehicles ever created
MaxBookings == 4     \* bookings ever created
MaxMine == 2         \* bookings ever created, where both renters book
MaxUsers == 3        \* user documents
MaxInFlight == 2     \* requests suspended at the same time
MaxTime == 1         \* the last reading of the clock

(***************************************************************************)
(* JavaScript values.                                                      *)
(***************************************************************************)
Undef == [t |-> "undef", n |-> 0, s |-> <<>>]
NaN == [t |-> "nan", n |-> 0, s |-> <<>>]
Num(k) == [t |-> "num", n |-> k, s |-> <<>>]
Str(cs) == [t |-> "str", n |-> 0, s |-> cs]

\* if (x) ...  : undefined, 0, NaN and "" are falsy
Truthy(x) ==
  CASE x.t = "undef" -> FALSE
    [] x.t = "nan" -> FALSE
    [] x.t = "num" -> x.n # 0
    [] x.t = "str" -> x.s # <<>>

Digits == <<"0", "1", "2", "3", "4", "5", "6", "7", "8", "9">>

IsDigit(c) == \E k \in 1..10 : Digits[k] = c

DigitVal(c) == (CHOOSE k \in 1..10 : Digits[k] = c) - 1

RECURSIVE DecVal(_)
DecVal(cs) ==
  IF cs = <<>> THEN 0
  ELSE 10 * DecVal(SubSeq(cs, 1, Len(cs) - 1)) + DigitVal(cs[Len(cs)])

\* Number(x) for undefined, numbers and strings of an optional sign and
\* decimal digits; the empty string is 0, any other string is NaN
Number(x) ==
  CASE x.t = "undef" -> NaN
    [] x.t = "nan" -> NaN
    [] x.t = "num" -> x
    [] x.t = "str" ->
         IF x.s = <<>> THEN Num(0)
         ELSE IF \A i \in 1..Len(x.s) : IsDigit(x.s[i]) THEN Num(DecVal(x.s))
         ELSE IF /\ Len(x.s) > 1
                 /\ x.s[1] = "-"
                 /\ \A i \in 2..Len(x.s) : IsDigit(x.s[i])
              THEN Num(0 - DecVal(Tail(x.s)))
         ELSE NaN

\* a || b
OrElse(a, b) == IF Truthy(a) THEN a ELSE b

UpperLetters == <<"A", "B", "C", "D", "E", "F", "S", "U", "V">>
LowerLetters == <<"a", "b", "c", "d", "e", "f", "s", "u", "v">>

\* case folding of the letters the model uses
Lower(c) ==
  IF \E k \in 1..Len(UpperLetters) : UpperLetters[k] = c
  THEN LowerLetters[CHOOSE k \in 1..Len(UpperLetters) : UpperLetters[k] = c]
  ELSE c

(***************************************************************************)
(* ObjectId: 24 hexadecimal characters; two strings that differ only in    *)
(* case name the same ObjectId.                                            *)
(***************************************************************************)
IdLen == 24

HexChars ==
  {"0", "1", "2", "3", "4", "5", "6", "7", "8", "9",
   "a", "b", "c", "d", "e", "f", "A", "B", "C", "D", "E", "F"}

\* ObjectId.isValid(id) for a string
isValid(id) == Len(id) = IdLen /\ \A i \in 1..IdLen : id[i] \in HexChars

\* new ObjectId(id) for a valid string: the 12 bytes, written in lower case
ObjectId(id) == [i \in 1..IdLen |-> Lower(id[i])]

\* 23 zeros and one last character
ZeroId(last) == [i \in 1..IdLen |-> IF i = IdLen THEN last ELSE "0"]

\* the k-th identifier the store generates
GenLetters == <<"a", "b", "c", "d", "e", "f">>
GenId(k) == ZeroId(GenLetters[k])

(***************************************************************************)
(* Authorization headers and the identity provider.                        *)
(***************************************************************************)
BearerPrefix == <<"B", "e", "a", "r", "e", "r", " ">>

startsWith(h, p) == Len(h) >= Len(p) /\ SubSeq(h, 1, Len(p)) = p

\* header.split(" ")[1]: the characters between the first and second space
\* (header holds a space, given the startsWith test before)
SplitSecond(h) ==
  LET first == CHOOSE i \in 1..Len(h) :
                 h[i] = " " /\ \A j \in 1..(i - 1) : h[j] # " "
      rest == SubSeq(h, first + 1, Len(h))
      stop == IF \E i \in 1..Len(rest) : rest[i] = " "
              THEN CHOOSE i \in 1..Len(rest) :
                     rest[i] = " " /\ \A j \in 1..(i - 1) : rest[j] # " "
              ELSE Len(rest) + 1
  IN SubSeq(rest, 1, stop - 1)

EmailA == Str(<<"a">>)
EmailB == Str(<<"b">>)

\* admin.auth().verifyIdToken(token): the tokens the provider has signed
TokenA == <<"1">>
TokenB == <<"2">>
ValidTokens == {TokenA, TokenB}
verifyIdToken(token) == IF token = TokenA THEN EmailA ELSE EmailB

Bearer(tok) == BearerPrefix \o tok

HeaderA == Bearer(TokenA)
HeaderB == Bearer(TokenB)
GoodHeaders == {HeaderA, HeaderB}
BadHeaders ==
  { <<>>,                                        \* no Authorization header
    <<"B", "a", "s", "i", "c", " ", "1">>,       \* another scheme
    <<"b", "e", "a", "r", "e", "r", " ", "1">>,  \* wrong case
    Bearer(<<"9">>),                             \* a token nobody signed
    Bearer(<<" ", "1">>) }                       \* two spaces: empty token

\* verifyFirebaseToken that decodes the token without verifying it
verifyFirebaseTokenUnverified(header) ==
  IF ~startsWith(header, BearerPrefix) THEN [ok |-> FALSE, email |-> Undef]
  ELSE [ok |-> TRUE, email |-> verifyIdToken(SplitSecond(header))]

\* verifyFirebaseToken: [ok, email]; ok = FALSE is the 401 answer
verifyFirebaseToken(header) ==
  IF ~startsWith(header, BearerPrefix) THEN [ok |-> FALSE, email |-> Undef]
  ELSE LET token == SplitSecond(header)
       IN IF token \in ValidTokens
          THEN [ok |-> TRUE, email |-> verifyIdToken(token)]
          ELSE [ok |-> FALSE, email |-> Undef]

Unauthorized == [message |-> "unauthorized access"]

(***************************************************************************)
(* Requests, answers and the state after start-up.                         *)
(***************************************************************************)
\* status 0: the handler is suspended at its second store call
\* arg is the identifier or the query the request carries
Event(op, hdr, arg, status, out) ==
  [op |-> op, hdr |-> hdr, arg |-> arg, status |-> status, out |-> out]

Message(m) == [message |-> m]

Answer(op, hdr, arg, status, out) ==
  /\ ev' = Event(op, hdr, arg, status, out)
  /\ UNCHANGED <<vehicles, bookings, users, inflight, now, nextId, createdBy>>

Init ==
  /\ vehicles = <<>>
  /\ bookings = <<>>
  /\ users = <<>>
  /\ inflight = <<>>
  /\ now = 0
  /\ nextId = 0
  /\ createdBy = <<>>
  /\ ev = Event("listen", <<>>, <<>>, 0, <<>>)

\* time passes between two readings of new Date()
Tick ==
  /\ now < MaxTime
  /\ now' = now + 1
  /\ ev' = Event("tick", <<>>, <<>>, 0, <<>>)
  /\ UNCHANGED <<vehicles, bookings, users, inflight, nextId, createdBy>>

Remove(seq, i) == SubSeq(seq, 1, i - 1) \o SubSeq(seq, i + 1, Len(seq))

\* the handler leaves its first store call and waits for the second
Suspend(op, hdr, arg, email, id, write) ==
  /\ Len(inflight) < MaxInFlight
  /\ inflight' = Append(inflight,
                        [op |-> op, email |-> email, id |-> id,
                         write |-> write])
  /\ ev' = Event(op, hdr, arg, 0, <<>>)
  /\ UNCHANGED <<vehicles, bookings, users, now, nextId, createdBy>>

(***************************************************************************)
(* POST /vehicles                                                          *)
(***************************************************************************)
\* the request bodies of POST and PATCH /vehicles (absent field = Undef)
VehicleBody(e, p, c, l) ==
  [userEmail |-> e, pricePerDay |-> p, category |-> c, location |-> l]

\* the document POST /vehicles builds
NewVehicleDoc(data, token_email, date) ==
  [category |-> data.category,
   pricePerDay |-> OrElse(Number(data.pricePerDay), Num(0)),
   location |-> data.location,
   userEmail |-> token_email,
   createdAt |-> date]

PostVehicle(h, data) ==
  LET auth == verifyFirebaseToken(h)
      op == "POST /vehicles"
  IN IF ~auth.ok THEN Answer(op, h, <<>>, 401, Unauthorized)
     ELSE LET doc == NewVehicleDoc(data, auth.email, now)
              insertedId == GenId(nextId + 1)
          IN /\ nextId < MaxVehicles
             /\ vehicles' = vehicles @@ (insertedId :> doc)
             /\ createdBy' = createdBy @@ (insertedId :> auth.email)
             /\ nextId' = nextId + 1
             /\ ev' = Event(op, h, <<>>, 200,
                            [insertedId |-> insertedId, doc |-> doc])
             /\ UNCHANGED <<bookings, users, inflight, now>>

(***************************************************************************)
(* GET /vehicles/:id                                                       *)
(***************************************************************************)
GetVehicleById(id) ==
  LET op == "GET /vehicles/:id"
  IN IF ~isValid(id) THEN Answer(op, <<>>, id, 400, Message("Invalid ID"))
     ELSE IF ObjectId(id) \notin DOMAIN vehicles
     THEN Answer(op, <<>>, id, 404, Message("Vehicle not found"))
     ELSE Answer(op, <<>>, id, 200, vehicles[ObjectId(id)])

(***************************************************************************)
(* PATCH /vehicles/:id: the lookup and the guard, then the write           *)
(***************************************************************************)
\* the $set document: the fields of the body, and pricePerDay always
UpdateDoc(body, vehicle) ==
  [userEmail |-> body.userEmail,
   category |-> body.category,
   location |-> body.location,
   pricePerDay |-> IF Truthy(body.pricePerDay)
                   THEN Number(body.pricePerDay)
                   ELSE vehicle.pricePerDay]

\* $set: a field the update document does not hold keeps its value
ApplySet(doc, set) ==
  [f \in DOMAIN doc |->
     IF f \in DOMAIN set /\ set[f] # Undef THEN set[f] ELSE doc[f]]

\* vehicle.userEmail !== req.token_email
NotOwner(vehicle, token_email) == vehicle.userEmail # token_email

PatchVehicle(h, id, body) ==
  LET auth == verifyFirebaseToken(h)
      op == "PATCH /vehicles/:id"
  IN IF ~auth.ok THEN Answer(op, h, id, 401, Unauthorized)
     ELSE IF ~isValid(id)
     THEN Answer(op, h, id, 400, Message("Invalid ID"))
     ELSE IF ObjectId(id) \notin DOMAIN vehicles
     THEN Answer(op, h, id, 404, Message("Not found"))
     ELSE IF NotOwner(vehicles[ObjectId(id)], auth.email)
     THEN Answer(op, h, id, 403, Message("Forbidden"))
     ELSE Suspend(op, h, id, auth.email, ObjectId(id),
                  UpdateDoc(body, vehicles[ObjectId(id)]))

\* vehicles.updateOne({ _id }, update), and the answer
PatchVehicleWrite(i) ==
  LET p == inflight[i]
      matched == p.id \in DOMAIN vehicles
  IN /\ p.op = "PATCH /vehicles/:id"
     /\ vehicles' = IF matched
                    THEN [vehicles EXCEPT ![p.id] = ApplySet(@, p.write)]
                    ELSE vehicles
     /\ inflight' = Remove(inflight, i)
     /\ ev' = Event("updateOne", <<>>, p.id, 200,
                    [matchedCount |-> IF matched THEN 1 ELSE 0])
     /\ UNCHANGED <<bookings, users, now, nextId, createdBy>>

(***************************************************************************)
(* DELETE /vehicles/:id: the lookup and the guard, then the write          *)
(***************************************************************************)
DeleteVehicle(h, id) ==
  LET auth == verifyFirebaseToken(h)
      op == "DELETE /vehicles/:id"
  IN IF ~auth.ok THEN Answer(op, h, id, 401, Unauthorized)
     ELSE IF ~isValid(id)
     THEN Answer(op, h, id, 400, Message("Invalid ID"))
     ELSE IF ObjectId(id) \notin DOMAIN vehicles
     THEN Answer(op, h, id, 404, Message("Not found"))
     ELSE IF NotOwner(vehicles[ObjectId(id)], auth.email)
     THEN Answer(op, h, id, 403, Message("Forbidden"))
     ELSE Suspend(op, h, id, auth.email, ObjectId(id), <<>>)

\* vehicles.deleteOne({ _id }), and the answer
DeleteVehicleWrite(i) ==
  LET p == inflight[i]
      matched == p.id \in DOMAIN vehicles
  IN /\ p.op = "DELETE /vehicles/:id"
     /\ vehicles' = [k \in DOMAIN vehicles \ {p.id} |-> vehicles[k]]
     /\ inflight' = Remove(inflight, i)
     /\ ev' = Event("deleteOne", <<>>, p.id, 200,
                    [deletedCount |-> IF matched THEN 1 ELSE 0])
     /\ UNCHANGED <<bookings, users, now, nextId, createdBy>>

(***************************************************************************)
(* The identifiers requests carry.                                         *)
(***************************************************************************)
IdFirst == GenId(1)               \* the first vehicle
IdSecond == GenId(2)              \* the second vehicle
IdUpper == ZeroId("A")            \* the first vehicle, in upper case
IdUnknown == ZeroId("0")          \* well formed, never generated
GoodIds == {IdFirst, IdUpper, IdUnknown}
BadIds ==
  { <<"x", "y", "z">>,                              \* too short
    [i \in 1..(IdLen - 1) |-> "0"],                 \* 23 hex characters
    ZeroId("g") }                                   \* 24, one not hex

(***************************************************************************)
(* The vehicle routes under the ownership guard.                           *)
(***************************************************************************)
NoFields == VehicleBody(Undef, Undef, Undef, Undef)

OwnBodies ==
  {NoFields}
  \cup {VehicleBody(EmailB, Undef, Undef, Undef)}
  \cup {VehicleBody(Undef, p, Undef, Undef) :
          p \in {Num(0), Num(-5), Str(<<"a", "b">>)}}

OwnNext ==
  \/ \E h \in GoodHeaders, data \in OwnBodies : PostVehicle(h, data)
  \/ \E h \in GoodHeaders, id \in GoodIds, body \in OwnBodies :
       PatchVehicle(h, id, body)
  \/ \E i \in 1..Len(inflight) : PatchVehicleWrite(i)
  \/ \E h \in GoodHeaders, id \in GoodIds : DeleteVehicle(h, id)
  \/ \E i \in 1..Len(inflight) : DeleteVehicleWrite(i)

SpecOwn == Init /\ [][OwnNext]_vars

\* the identity the provider signed into the token of a header
IdentityOf(h) == IF h = HeaderA THEN EmailA ELSE EmailB

Last(seq) == seq[Len(seq)]

BodyFields == {"userEmail", "pricePerDay", "category", "location"}

\* C1, the guard: on a well-formed identifier and a verified identity, PATCH
\* and DELETE answer 404 when no vehicle has the identifier and 403 when the
\* stored userEmail is not the caller's, both without touching a store or
\* scheduling a write; otherwise exactly one write for that vehicle and that
\* caller is scheduled, updateOne sets every field its $set document holds
\* and deleteOne removes the record.
C1_GuardOf(h, id) ==
  LET e == IdentityOf(h)
      k == [i \in 1..IdLen |-> Lower(id[i])]
  IN /\ k \notin DOMAIN vehicles
          => ev'.status = 404 /\ UNCHANGED <<stores, inflight>>
     /\ (k \in DOMAIN vehicles /\ vehicles[k].userEmail # e)
          => ev'.status = 403 /\ UNCHANGED <<stores, inflight>>
     /\ (k \in DOMAIN vehicles /\ vehicles[k].userEmail = e)
          => /\ ev'.status = 0
             /\ UNCHANGED stores
             /\ Len(inflight') = Len(inflight) + 1
             /\ SubSeq(inflight', 1, Len(inflight)) = inflight
             /\ Last(inflight').id = k
             /\ Last(inflight').email = e

C1_WriteOf(i) ==
  LET p == inflight[i]
  IN /\ PatchVehicleWrite(i) /\ p.id \in DOMAIN vehicles
          => /\ DOMAIN vehicles' = DOMAIN vehicles
             /\ \A f \in BodyFields :
                  p.write[f] # Undef => vehicles'[p.id][f] = p.write[f]
             /\ \A k \in DOMAIN vehicles \ {p.id} : vehicles'[k] = vehicles[k]
     /\ DeleteVehicleWrite(i)
          => /\ p.id \notin DOMAIN vehicles'
             /\ \A k \in DOMAIN vehicles \ {p.id} :
                  k \in DOMAIN vehicles' /\ vehicles'[k] = vehicles[k]

C1_Guard ==
  [][/\ (/\ ev'.op \in {"PATCH /vehicles/:id", "DELETE /vehicles/:id"}
         /\ ev'.hdr \in GoodHeaders
         /\ ev'.arg \in GoodIds)
          => C1_GuardOf(ev'.hdr, ev'.arg)
     /\ \A i \in 1..Len(inflight) : C1_WriteOf(i)]_vars

\* an owner's update was applied
C1_GuardWitness ==
  /\ ev.op = "updateOne"
  /\ ev.out.matchedCount = 1
  /\ \E k \in DOMAIN vehicles : vehicles[k].pricePerDay = NaN

\* C1 as stated: as the guard above, and when the stored userEmail equals the
\* caller's identity the update sets the supplied fields: every field of
\* the body reaches updateOne with the supplied value (a price as the number
\* it denotes).
C1_SetsSuppliedFields ==
  [][\A h \in GoodHeaders, id \in GoodIds, body \in OwnBodies :
       (/\ PatchVehicle(h, id, body)
        /\ ev'.status = 0)
         => \A f \in BodyFields :
              body[f] # Undef
                => \/ Last(inflight').write[f] = body[f]
                   \/ /\ f = "pricePerDay"
                      /\ Last(inflight').write[f] = Number(body[f])]_vars

\* C2: every stored vehicle's userEmail is the verified identity of the
\* request that created it.
C2_OwnerIsCreator ==
  \A k \in DOMAIN vehicles : vehicles[k].userEmail = createdBy[k]

\* C2, at creation: the stored userEmail is the token's identity, whatever
\* the body says.
C2_CreatedFromToken ==
  [][\A h \in GoodHeaders, data \in OwnBodies :
       PostVehicle(h, data)
         => \E k \in DOMAIN vehicles' \ DOMAIN vehicles :
              /\ vehicles'[k].userEmail = IdentityOf(h)
              /\ createdBy'[k] = IdentityOf(h)]_vars

\* C10: every stored vehicle's pricePerDay is a non-negative number.
C10_PriceNonNegative ==
  \A k \in DOMAIN vehicles :
    vehicles[k].pricePerDay.t = "num" /\ vehicles[k].pricePerDay.n >= 0

(***************************************************************************)
(* POST /users: the lookup, then the insert                                *)
(***************************************************************************)
PostUser(newUser) ==
  LET op == "POST /users"
  IN IF ~Truthy(newUser.email)
     THEN Answer(op, <<>>, <<>>, 400, Message("email required"))
     ELSE IF \E i \in 1..Len(users) : users[i].email = newUser.email
     THEN Answer(op, <<>>, <<>>, 200, Message("User already exists"))
     ELSE Suspend(op, <<>>, <<>>, newUser.email, <<>>, newUser)

\* users.insertOne({ ...newUser, createdAt: new Date() }), and the answer
PostUserInsert(i) ==
  LET p == inflight[i]
  IN /\ p.op = "POST /users"
     /\ Len(users) < MaxUsers
     /\ users' = Append(users, [email |-> p.write.email, createdAt |-> now])
     /\ inflight' = Remove(inflight, i)
     /\ ev' = Event("insertOne", <<>>, <<>>, 200,
                    [insertedId |-> Len(users) + 1])
     /\ UNCHANGED <<vehicles, bookings, now, nextId, createdBy>>

UserBodies == {[email |-> e] : e \in {Undef, Str(<<>>), EmailA, EmailB}}

UsersNext ==
  \/ \E newUser \in UserBodies : PostUser(newUser)
  \/ \E i \in 1..Len(inflight) : PostUserInsert(i)
  \/ Tick

SpecUsers == Init /\ [][UsersNext]_vars

\* C3: the users collection holds at most one document per email.
C3_OneUserPerEmail ==
  \A i, j \in 1..Len(users) : users[i].email = users[j].email => i = j

\* C3, the second half: a registration whose lookup finds the email answers
\* "User already exists" and changes nothing.
C3_ExistingIsNoOp ==
  [][\A newUser \in UserBodies :
       (/\ PostUser(newUser)
        /\ \E i \in 1..Len(users) : users[i].email = newUser.email)
         => /\ ev'.status = 200
            /\ ev'.out = Message("User already exists")
            /\ UNCHANGED <<stores, inflight>>]_vars

(***************************************************************************)
(* Aggregation stages: $sort leaves the order of equal keys open.          *)
(***************************************************************************)
Perms(S) ==
  {f \in [1..Cardinality(S) -> S] :
     \A i, j \in 1..Cardinality(S) : f[i] = f[j] => i = j}

\* the orders $sort may produce: no document before one that sorts first
\* (before holds the pairs <<a, b>> where a sorts first)
SortStage(S, before) ==
  {f \in Perms(S) : \A i, j \in 1..Cardinality(S) :
                      i < j => <<f[j], f[i]>> \notin before}

Min(a, b) == IF a < b THEN a ELSE b

MaxOf(S) == CHOOSE m \in S : \A x \in S : x <= m

(***************************************************************************)
(* POST /bookings                                                          *)
(***************************************************************************)
PostBooking(h, data) ==
  LET auth == verifyFirebaseToken(h)
      op == "POST /bookings"
      arg == data.vehicleId
  IN IF ~auth.ok THEN Answer(op, h, arg, 401, Unauthorized)
     ELSE IF ~Truthy(data.vehicleId)
     THEN Answer(op, h, arg, 400, Message("vehicleId required"))
     ELSE IF ~isValid(data.vehicleId.s)
     THEN \* new ObjectId throws, the catch answers
          Answer(op, h, arg, 500, Message("BSONError"))
     ELSE /\ Len(bookings) < MaxBookings
          /\ bookings' = Append(bookings,
                                [vehicleId |-> ObjectId(data.vehicleId.s),
                                 userEmail |-> auth.email,
                                 createdAt |-> now])
          /\ ev' = Event(op, h, arg, 200, [insertedId |-> Len(bookings) + 1])
          /\ UNCHANGED <<vehicles, users, inflight, now, nextId, createdBy>>

(***************************************************************************)
(* GET /my-bookings                                                        *)
(***************************************************************************)
\* the pipeline without its $match stage
MyRowsOfEveryone(token_email) ==
  {[_id |-> i,
    vehicleId |-> bookings[i].vehicleId,
    userEmail |-> bookings[i].userEmail,
    createdAt |-> bookings[i].createdAt,
    vehicle |-> vehicles[k]] :
     <<i, k>> \in {x \in (1..Len(bookings)) \X DOMAIN vehicles :
                     x[2] = bookings[x[1]].vehicleId}}

\* $match, $lookup and $unwind: one row per booking of the caller and
\* vehicle with the booking's vehicleId
MyRows(token_email) ==
  {[_id |-> i,
    vehicleId |-> bookings[i].vehicleId,
    userEmail |-> bookings[i].userEmail,
    createdAt |-> bookings[i].createdAt,
    vehicle |-> vehicles[k]] :
     <<i, k>> \in {x \in (1..Len(bookings)) \X DOMAIN vehicles :
                     /\ bookings[x[1]].userEmail = token_email
                     /\ x[2] = bookings[x[1]].vehicleId}}

NewerBooking(a, b) == a.createdAt > b.createdAt

GetMyBookings(h) ==
  LET auth == verifyFirebaseToken(h)
      op == "GET /my-bookings"
  IN IF ~auth.ok THEN Answer(op, h, <<>>, 401, Unauthorized)
     ELSE LET rows == MyRows(auth.email)
              newer == {p \in rows \X rows : NewerBooking(p[1], p[2])}
          IN \E list \in SortStage(rows, newer) :
               Answer(op, h, <<>>, 200, list)

(***************************************************************************)
(* GET /stats/top-vehicles                                                 *)
(***************************************************************************)
DefaultLimit == 3

\* $group by vehicleId
Groups ==
  {[_id |-> v,
    totalBookings |-> Cardinality({i \in 1..Len(bookings) :
                                     bookings[i].vehicleId = v}),
    lastBookingAt |-> MaxOf({bookings[i].createdAt :
                               i \in {j \in 1..Len(bookings) :
                                        bookings[j].vehicleId = v}})] :
     v \in {bookings[i].vehicleId : i \in 1..Len(bookings)}}

\* $sort: { totalBookings: -1, lastBookingAt: -1 }
BusierGroup(a, b) ==
  \/ a.totalBookings > b.totalBookings
  \/ a.totalBookings = b.totalBookings /\ a.lastBookingAt > b.lastBookingAt

\* $limit placed after the join: every group gets through
LimitStageMissing(seq, n) == seq

\* $limit
LimitStage(seq, n) == SubSeq(seq, 1, Min(n, Len(seq)))

\* $lookup and $unwind
HasVehicle(g) == g._id \in DOMAIN vehicles

\* $project
TopEntry(g) ==
  [_id |-> g._id,
   totalBookings |-> g.totalBookings,
   lastBookingAt |-> g.lastBookingAt,
   category |-> vehicles[g._id].category,
   pricePerDay |-> vehicles[g._id].pricePerDay,
   location |-> vehicles[g._id].location,
   userEmail |-> vehicles[g._id].userEmail]

TopPipeline(sorted, n) ==
  LET kept == SelectSeq(LimitStage(sorted, n), HasVehicle)
  IN [i \in 1..Len(kept) |-> TopEntry(kept[i])]

\* Number(req.query.limit) || 3
LimitOf(q) == OrElse(Number(q), Num(DefaultLimit))

GetTopVehicles(q) ==
  LET op == "GET /stats/top-vehicles"
      limit == LimitOf(q)
  IN IF limit.n <= 0
     THEN \* the store rejects a $limit that is not positive
          Answer(op, <<>>, q, 500, Message("the limit must be positive"))
     ELSE LET busier == {p \in Groups \X Groups : BusierGroup(p[1], p[2])}
          IN \E sorted \in SortStage(Groups, busier) :
               Answer(op, <<>>, q, 200, TopPipeline(sorted, limit.n))

(***************************************************************************)
(* Bookings and the two aggregations.                                      *)
(***************************************************************************)
BookingBody(v) == [vehicleId |-> v]

LimitParams ==
  {Undef, Str(<<"0">>), Str(<<"1">>), Str(<<"2">>), Str(<<"-", "1">>)}

TopNext ==
  \/ PostVehicle(HeaderA, NoFields)
  \/ inflight = <<>> /\ DeleteVehicle(HeaderA, IdFirst)
  \/ \E i \in 1..Len(inflight) : DeleteVehicleWrite(i)
  \/ \E v \in {IdFirst, IdSecond} : PostBooking(HeaderA, BookingBody(Str(v)))
  \/ \E q \in LimitParams : GetTopVehicles(q)
  \/ Tick

SpecTop == Init /\ [][TopNext]_vars

MineNext ==
  \/ PostVehicle(HeaderA, NoFields)
  \/ inflight = <<>> /\ DeleteVehicle(HeaderA, IdFirst)
  \/ \E i \in 1..Len(inflight) : DeleteVehicleWrite(i)
  \/ /\ Len(bookings) < MaxMine
     /\ \E h \in GoodHeaders, v \in {IdFirst, IdSecond} :
          PostBooking(h, BookingBody(Str(v)))
  \/ \E h \in GoodHeaders : GetMyBookings(h)
  \/ Tick

SpecMine == Init /\ [][MineNext]_vars

\* C4: a booking is inserted only with a vehicleId that names a vehicle in
\* the store at that moment.
C4_BookingReferencesVehicle ==
  [][Len(bookings') > Len(bookings)
       => Last(bookings').vehicleId \in DOMAIN vehicles]_vars

\* C6: GET /my-bookings of a verified identity answers 200 with exactly the
\* caller's bookings whose vehicle is in the store, each once and joined with
\* that vehicle, newest first.
C6_MyBookings ==
  (ev.op = "GET /my-bookings" /\ ev.hdr \in GoodHeaders)
    => LET e == IdentityOf(ev.hdr)
           out == ev.out
       IN /\ ev.status = 200
          /\ \A i \in 1..Len(bookings) :
               (bookings[i].userEmail = e
                /\ bookings[i].vehicleId \in DOMAIN vehicles)
                 <=> \E r \in 1..Len(out) : out[r]._id = i
          /\ \A r, t \in 1..Len(out) :
               /\ out[r]._id = out[t]._id => r = t
               /\ r < t => out[r].createdAt >= out[t].createdAt
          /\ \A r \in 1..Len(out) :
               /\ out[r]._id \in 1..Len(bookings)
               /\ out[r].userEmail = e
               /\ out[r].vehicleId = bookings[out[r]._id].vehicleId
               /\ out[r].createdAt = bookings[out[r]._id].createdAt
               /\ out[r].vehicle = vehicles[out[r].vehicleId]

\* the caller has a booking on a deleted vehicle, which the answer omits, and
\* one on a vehicle in the store, which it lists
C6_Witness ==
  /\ ev.op = "GET /my-bookings"
  /\ ev.status = 200
  /\ Len(ev.out) = 1
  /\ \E i \in 1..Len(bookings) :
       /\ bookings[i].userEmail = IdentityOf(ev.hdr)
       /\ bookings[i].vehicleId \in DOMAIN createdBy \ DOMAIN vehicles

\* two bookings of the caller, listed newest first
C6_WitnessOrder ==
  /\ ev.op = "GET /my-bookings"
  /\ ev.status = 200
  /\ Len(ev.out) = 2
  /\ ev.out[1].createdAt > ev.out[2].createdAt
  /\ ev.out[1]._id > ev.out[2]._id

\* another renter's booking stays out of the answer; nothing matching gives
\* the empty sequence
C6_WitnessOthers ==
  /\ ev.op = "GET /my-bookings"
  /\ ev.status = 200
  /\ ev.out = <<>>
  /\ \E i \in 1..Len(bookings) :
       /\ bookings[i].userEmail # IdentityOf(ev.hdr)
       /\ bookings[i].vehicleId \in DOMAIN vehicles

\* C7: the groups GET /stats/top-vehicles?limit=N answers with.  kept is a
\* set of min(n, number of groups) vehicleIds that no group left out sorts
\* before; the answer is the kept groups whose vehicle is in the store, in
\* order, with the number of bookings and the latest createdAt of each.
BookingsOf(v) == {i \in 1..Len(bookings) : bookings[i].vehicleId = v}

BookedIds == {bookings[i].vehicleId : i \in 1..Len(bookings)}

LatestOf(v) ==
  CHOOSE m \in {bookings[i].createdAt : i \in BookingsOf(v)} :
    \A i \in BookingsOf(v) : bookings[i].createdAt <= m

SortsBefore(a, b) ==
  \/ Cardinality(BookingsOf(a)) > Cardinality(BookingsOf(b))
  \/ /\ Cardinality(BookingsOf(a)) = Cardinality(BookingsOf(b))
     /\ LatestOf(a) > LatestOf(b)

TopAnswerFor(n, out) ==
  \E kept \in SUBSET BookedIds :
    /\ Cardinality(kept) = Min(n, Cardinality(BookedIds))
    /\ \A a \in kept, b \in BookedIds \ kept : ~SortsBefore(b, a)
    /\ \A v \in kept \cap DOMAIN vehicles :
         \E r \in 1..Len(out) : out[r]._id = v
    /\ \A r, t \in 1..Len(out) :
         /\ out[r]._id = out[t]._id => r = t
         /\ r < t => ~SortsBefore(out[t]._id, out[r]._id)
    /\ \A r \in 1..Len(out) :
         /\ out[r]._id \in kept \cap DOMAIN vehicles
         /\ out[r].totalBookings = Cardinality(BookingsOf(out[r]._id))
         /\ out[r].lastBookingAt = LatestOf(out[r]._id)
         /\ out[r].userEmail = vehicles[out[r]._id].userEmail
         /\ out[r].pricePerDay = vehicles[out[r]._id].pricePerDay
         /\ out[r].category = vehicles[out[r]._id].category
         /\ out[r].location = vehicles[out[r]._id].location

Query(cat, loc, lo, hi, email, sortBy, sortOrder, limit) ==
  [category |-> cat, location |-> loc, minPrice |-> lo, maxPrice |-> hi,
   userEmail |-> email, sortBy |-> sortBy, sortOrder |-> sortOrder,
   limit |-> limit]

\* { $regex: pattern, $options: "i" } on a string: the pattern is found at
\* some offset; "." stands for any character, every other character the
\* model uses stands for itself
RegexFind(pattern, text) ==
  \E off \in 0..(Len(text) - Len(pattern)) :
    \A j \in 1..Len(pattern) :
      pattern[j] = "." \/ Lower(pattern[j]) = Lower(text[off + j])

\* $gte and $lte: a NaN on either side matches only a NaN
GteMatch(value, bound) ==
  \/ value.t = "num" /\ bound.t = "num" /\ value.n >= bound.n
  \/ value.t = "nan" /\ bound.t = "nan"

LteMatch(value, bound) ==
  \/ value.t = "num" /\ bound.t = "num" /\ value.n <= bound.n
  \/ value.t = "nan" /\ bound.t = "nan"

\* the query object the handler builds, applied to one document
FindMatches(doc, q) ==
  /\ Truthy(q.category) => doc.category = q.category
  /\ Truthy(q.location)
       => doc.location.t = "str" /\ RegexFind(q.location.s, doc.location.s)
  /\ Truthy(q.userEmail) => doc.userEmail = q.userEmail
  /\ Truthy(q.minPrice) => GteMatch(doc.pricePerDay, Number(q.minPrice))
  /\ Truthy(q.maxPrice) => LteMatch(doc.pricePerDay, Number(q.maxPrice))

FieldCreatedAt == Str(<<"c", "r", "e", "a", "t", "e", "d", "A", "t">>)
FieldPricePerDay ==
  Str(<<"p", "r", "i", "c", "e", "P", "e", "r", "D", "a", "y">>)
Asc == Str(<<"a", "s", "c">>)

VehicleRow(k) ==
  [_id |-> k,
   category |-> vehicles[k].category,
   pricePerDay |-> vehicles[k].pricePerDay,
   location |-> vehicles[k].location,
   userEmail |-> vehicles[k].userEmail,
   createdAt |-> vehicles[k].createdAt]

\* the value a row is sorted by; a field no row has is undefined
SortKey(row, sortBy) ==
  IF sortBy = FieldCreatedAt THEN Num(row.createdAt)
  ELSE IF sortBy = FieldPricePerDay THEN row.pricePerDay
  ELSE Undef

\* the store's order of values: undefined, then NaN, then the numbers
KeyRank(x) == CASE x.t = "undef" -> 0 [] x.t = "nan" -> 1 [] OTHER -> 2

KeyLess(a, b) ==
  \/ KeyRank(a) < KeyRank(b)
  \/ a.t = "num" /\ b.t = "num" /\ a.n < b.n

\* cursor.limit(n): 0 is no limit
CursorLimit(seq, n) == IF n = 0 THEN seq ELSE SubSeq(seq, 1, Min(n, Len(seq)))

GetVehicles(q) ==
  LET op == "GET /vehicles"
      sortBy == IF q.sortBy = Undef THEN FieldCreatedAt ELSE q.sortBy
      ascending == q.sortOrder = Asc
      found == {VehicleRow(k) : k \in {x \in DOMAIN vehicles :
                                         FindMatches(vehicles[x], q)}}
      Before(a, b) ==
        IF ascending THEN KeyLess(SortKey(a, sortBy), SortKey(b, sortBy))
        ELSE KeyLess(SortKey(b, sortBy), SortKey(a, sortBy))
  IN \E sorted \in SortStage(found,
                             {p \in found \X found : Before(p[1], p[2])}) :
       Answer(op, <<>>, q, 200,
              [items |-> IF Truthy(q.limit)
                         THEN CursorLimit(sorted, Number(q.limit).n)
                         ELSE sorted])

(***************************************************************************)
(* Vehicle discovery.                                                      *)
(***************************************************************************)
SUV == Str(<<"S", "U", "V">>)
Sedan == Str(<<"S", "e", "d", "a", "n">>)

Listings ==
  { <<HeaderA, VehicleBody(Undef, Num(50), SUV, Str(<<"a", "b">>))>>,
    <<HeaderB, VehicleBody(Undef, Num(80), Sedan, Str(<<"B">>))>>,
    <<HeaderA, VehicleBody(Undef, Num(80), SUV, Undef)>> }

\* every combination of the five filters, in the default order
FilterQueries ==
  {Query(c, l, lo, hi, e, Undef, Undef, Undef) :
     c \in {Undef, SUV},
     l \in {Undef, Str(<<"b">>), Str(<<".">>)},
     lo \in {Undef, Str(<<"6", "0">>)},
     hi \in {Undef, Str(<<"6", "0">>), Str(<<"4", "0">>)},
     e \in {Undef, EmailA}}

\* the orders and the limit, with no filter
OrderQueries ==
  {Query(Undef, Undef, Undef, Undef, Undef, sb, so, lim) :
     sb \in {Undef, FieldPricePerDay},
     so \in {Undef, Asc},
     lim \in {Undef, Str(<<"1">>)}}

Queries == FilterQueries \cup OrderQueries

QueryNext ==
  \/ \E l \in Listings : PostVehicle(l[1], l[2])
  \/ \E q \in Queries : GetVehicles(q)
  \/ Tick

SpecQuery == Init /\ [][QueryNext]_vars

\* location as the documentation reads it: the text occurs in the stored location,
\* letter case aside
ContainsIgnoringCase(text, part) ==
  \E off \in 0..(Len(text) - Len(part)) :
    \A j \in 1..Len(part) : Lower(part[j]) = Lower(text[off + j])

SatisfiesFilters(doc, q) ==
  /\ q.category # Undef => doc.category = q.category
  /\ q.location # Undef
       => /\ doc.location.t = "str"
          /\ ContainsIgnoringCase(doc.location.s, q.location.s)
  /\ q.userEmail # Undef => doc.userEmail = q.userEmail
  /\ q.minPrice # Undef
       => doc.pricePerDay.t = "num" /\ doc.pricePerDay.n >= DecVal(q.minPrice.s)
  /\ q.maxPrice # Undef
       => doc.pricePerDay.t = "num" /\ doc.pricePerDay.n <= DecVal(q.maxPrice.s)

\* C8: without limit, GET /vehicles answers with exactly the stored vehicles
\* that satisfy every filter that is present.
C8_ExactlyTheMatches ==
  (ev.op = "GET /vehicles" /\ ev.arg.limit = Undef)
    => /\ ev.status = 200
       /\ {ev.out.items[r]._id : r \in 1..Len(ev.out.items)}
            = {k \in DOMAIN vehicles : SatisfiesFilters(vehicles[k], ev.arg)}

\* C8 for a location that holds no "." : the same statement, and no vehicle
\* is listed twice
C8_ExactlyTheMatchesPlainText ==
  (/\ ev.op = "GET /vehicles"
   /\ ev.arg.limit = Undef
   /\ ev.arg.location # Str(<<".">>))
    => /\ ev.status = 200
       /\ {ev.out.items[r]._id : r \in 1..Len(ev.out.items)}
            = {k \in DOMAIN vehicles : SatisfiesFilters(vehicles[k], ev.arg)}
       /\ \A r, t \in 1..Len(ev.out.items) :
            ev.out.items[r]._id = ev.out.items[t]._id => r = t

(***************************************************************************)
(* Every route that takes a token or an identifier.                        *)
(***************************************************************************)
Ids == GoodIds \cup BadIds

ApiHeaders == {HeaderA} \cup BadHeaders

\* on the routes that also carry an identifier: the owner, no header, and a
\* token nobody signed
IdRouteHeaders == {HeaderA, <<>>, Bearer(<<"9">>)}

BookingBodies == {BookingBody(Undef)} \cup {BookingBody(Str(id)) : id \in Ids}

Next ==
  \/ \E h \in ApiHeaders : PostVehicle(h, NoFields)
  \/ \E id \in Ids : GetVehicleById(id)
  \/ \E h \in IdRouteHeaders, id \in Ids : PatchVehicle(h, id, NoFields)
  \/ \E i \in 1..Len(inflight) : PatchVehicleWrite(i)
  \/ \E h \in IdRouteHeaders, id \in Ids : DeleteVehicle(h, id)
  \/ \E i \in 1..Len(inflight) : DeleteVehicleWrite(i)
  \/ /\ Len(bookings) < MaxMine
     /\ \E h \in IdRouteHeaders, data \in BookingBodies :
          PostBooking(h, data)
  \/ \E h \in ApiHeaders : GetMyBookings(h)

Spec == Init /\ [][Next]_vars

AuthRoutes ==
  {"POST /vehicles", "PATCH /vehicles/:id", "DELETE /vehicles/:id",
   "POST /bookings", "GET /my-bookings"}

\* C5: a request to an authenticated route whose header is not "Bearer "
\* followed by a signed token is answered 401 "unauthorized access", and no
\* store and no pending write changes.
C5_UnauthenticatedFirst ==
  [][(ev'.op \in AuthRoutes /\ ev'.hdr \in BadHeaders)
       => /\ ev'.status = 401
          /\ ev'.out = [message |-> "unauthorized access"]
          /\ UNCHANGED <<stores, inflight>>]_vars

\* an unsigned token on a DELETE of a vehicle that is in the store
C5_Witness ==
  /\ ev.op = "DELETE /vehicles/:id"
  /\ ev.hdr = Bearer(<<"9">>)
  /\ ev.arg = IdFirst
  /\ IdFirst \in DOMAIN vehicles
  /\ ev.status = 401

\* C9: a malformed vehicle identifier is answered 400 on GET, PATCH and
\* DELETE /vehicles/:id and on POST /bookings.
C9_MalformedIs400 ==
  /\ (ev.op = "GET /vehicles/:id" /\ ev.arg \in BadIds) => ev.status = 400
  /\ (ev.op \in {"PATCH /vehicles/:id", "DELETE /vehicles/:id"}
      /\ ev.hdr \in GoodHeaders
      /\ ev.arg \in BadIds)
       => ev.status = 400
  /\ (ev.op = "POST /bookings"
      /\ ev.hdr \in GoodHeaders
      /\ ev.arg \in {Str(id) : id \in BadIds})
       => ev.status = 400

\* C9 for the three /vehicles/:id routes alone, and no store changes
C9_MalformedPathIs400 ==
  [][(ev'.op \in {"GET /vehicles/:id", "PATCH /vehicles/:id",
                  "DELETE /vehicles/:id"}
      /\ (ev'.op = "GET /vehicles/:id" \/ ev'.hdr = HeaderA)
      /\ ev'.arg \in BadIds)
       => ev'.status = 400 /\ UNCHANGED <<stores, inflight>>]_vars

(***************************************************************************)
(* The gap between the guard and the write of PATCH and DELETE.            *)
(***************************************************************************)
\* the store applies the write of pending request i to a stored vehicle
AppliesWrite(i) ==
  /\ inflight[i].id \in DOMAIN vehicles
  /\ PatchVehicleWrite(i) \/ DeleteVehicleWrite(i)

\* C11: every update or delete the store applies to a vehicle was issued by
\* a request whose verified identity equals the vehicle's stored userEmail
\* at the moment the write is applied.
C11_WriterIsOwnerAtWrite ==
  [][\A i \in 1..Len(inflight) :
       AppliesWrite(i)
         => vehicles[inflight[i].id].userEmail = inflight[i].email]_vars

\* the same routes when no PATCH body carries userEmail: the stored owner
\* never changes, and the late write is the owner's
KeepOwnerBodies == {b \in OwnBodies : b.userEmail = Undef}

KeepOwnerNext ==
  \/ \E h \in GoodHeaders, data \in OwnBodies : PostVehicle(h, data)
  \/ \E h \in GoodHeaders, id \in GoodIds, body \in KeepOwnerBodies :
       PatchVehicle(h, id, body)
  \/ \E i \in 1..Len(inflight) : PatchVehicleWrite(i)
  \/ \E h \in GoodHeaders, id \in GoodIds : DeleteVehicle(h, id)
  \/ \E i \in 1..Len(inflight) : DeleteVehicleWrite(i)

SpecKeepOwner == Init /\ [][KeepOwnerNext]_vars

\* a write was applied while another request on the same vehicle was pending
C11_LateWriteWitness ==
  /\ ev.op \in {"updateOne", "deleteOne"}
  /\ \/ ev.out = [matchedCount |-> 1]
     \/ ev.out = [deletedCount |-> 1]
  /\ \E i \in 1..Len(inflight) : inflight[i].id = ev.arg

====
